---- MODULE Spec2Model ----
(***************************************************************************)
(* libptp: the PTP transaction engine (camera.rs), the container framing   *)
(* and the string codec (data_type.rs, read.rs).                           *)
(*                                                                         *)
(* TLC integers are 32-bit signed, so a u32 or usize of the program is a   *)
(* little-endian tuple of 16-bit limbs: a u32 has two limbs, a usize       *)
(* (64-bit target) has four.  Byte buffers are tuples of 0..255.           *)
(***************************************************************************)
EXTENDS Integers, Sequences, FiniteSets, TLC

\* ------------------------------------------------------------------ bounds
MaxCalls == 2          \* command() calls made on one Camera
MaxContainers == 3     \* containers the device sends within one call
MaxSplit == 2          \* the same, for the devices that split containers or send datasets
MaxTail == 2           \* bytes the device puts in a second bulk read
MaxStr == 3            \* characters of a string given to DataType::STR, code units of one read
MaxArr == 2            \* elements of an array given to DataType::encode

\* --------------------------------------------------- fixed-width integers
Base == 256 * 256

\* the u32 / usize holding the small number n (n < 2^31)
U32(n) == <<n % Base, n \div Base>>
USize(n) == <<n % Base, n \div Base, 0, 0>>

\* a + b + c limb by limb; the last element of the result is the carry out
RECURSIVE AddFrom(_, _, _, _)
AddFrom(a, b, i, c) ==
    IF i > Len(a) THEN <<c>>
    ELSE LET s == a[i] + b[i] + c
         IN  <<s % Base>> \o AddFrom(a, b, i + 1, s \div Base)

\* a - b - bw limb by limb; the last element of the result is the borrow out
RECURSIVE SubFrom(_, _, _, _)
SubFrom(a, b, i, bw) ==
    IF i > Len(a) THEN <<bw>>
    ELSE LET d == a[i] - b[i] - bw
         IN  <<d % Base>> \o SubFrom(a, b, i + 1, IF d < 0 THEN 1 ELSE 0)

\* Rust `a + b` on an unsigned type: the wrapped value and whether it
\* overflowed (x and y are the values of the operands, each evaluated once)
Add(a, b) ==
    CHOOSE s \in { [v |-> SubSeq(r, 1, Len(r) - 1), overflow |-> r[Len(r)] = 1] :
                     r \in { AddFrom(x, y, 1, 0) : x \in {a}, y \in {b} } } : TRUE

\* Rust `a - b` on an unsigned type: the wrapped value and whether it
\* overflowed (x and y are the values of the operands, each evaluated once)
Sub(a, b) ==
    CHOOSE s \in { [v |-> SubSeq(r, 1, Len(r) - 1), overflow |-> r[Len(r)] = 1] :
                     r \in { SubFrom(x, y, 1, 0) : x \in {a}, y \in {b} } } : TRUE

Lt(a, b) == Sub(a, b).overflow
Min(a, b) == IF Lt(b, a) THEN b ELSE a

\* `x as u32` of a usize, `x as usize` of a u32
AsU32(x) == SubSeq(x, 1, 2)
AsUSize(x) == <<x[1], x[2], 0, 0>>

\* the number a small usize stands for (only used below 2^31)
IsSmall(x) == x[3] = 0 /\ x[4] = 0 /\ x[2] < 256
ToNat(x) == x[1] + Base * x[2]

\* byteorder::LittleEndian writers and readers
LE16(v) == <<v % 256, v \div 256>>
LE32(w) == LE16(w[1]) \o LE16(w[2])
RdU16(b, i) == b[i] + 256 * b[i + 1]
RdU32(b, i) == <<RdU16(b, i), RdU16(b, i + 2)>>

\* ------------------------------------------------------ program constants
CONTAINER_INFO_SIZE == 12
CHUNK_SIZE == <<0, 16, 0, 0>>          \* 1024 * 1024 as a usize
SCRATCH_SIZE == 8 * 1024               \* the [u8; 8 * 1024] scratch buffer
ResponseOk == 8193                     \* StandardResponseCode::Ok = 0x2001

\* ContainerType as u16
KindCommand == 1
KindData == 2
KindResponse == 3
KindEvent == 4

\* ContainerType::from_u16: None is modelled as 0
from_u16(v) == IF v \in {KindCommand, KindData, KindResponse, KindEvent} THEN v ELSE 0

\* a byte slice: its length as a usize and its content; the content of a
\* slice too large to enumerate is not tracked (bytes = <<>>)
Slice(bs) == [len |-> USize(Len(bs)), bytes |-> bs]
Opaque(n) == [len |-> n, bytes |-> <<>>]
Tracked(b) == IsSmall(b.len) /\ Len(b.bytes) = ToNat(b.len)
NoSlice == Slice(<<>>)

\* a ++ b
Concat(a, b) ==
    [len |-> Add(a.len, b.len).v,
     bytes |-> IF Tracked(a) /\ Tracked(b) THEN a.bytes \o b.bytes ELSE <<>>]

\* --------------------------------------------------------------- results
NoResult == [ok |-> FALSE, kind |-> "None", code |-> 0, msg |-> <<>>, payload |-> NoSlice]
Ok(p) == [ok |-> TRUE, kind |-> "Ok", code |-> 0, msg |-> <<>>, payload |-> p]
ErrUsb == [ok |-> FALSE, kind |-> "Usb", code |-> 0, msg |-> <<>>, payload |-> NoSlice]
ErrResponse(c) == [ok |-> FALSE, kind |-> "Response", code |-> c, msg |-> <<>>, payload |-> NoSlice]
ErrMalformed(m) == [ok |-> FALSE, kind |-> "Malformed", code |-> 0, msg |-> m, payload |-> NoSlice]
\* io::ErrorKind::UnexpectedEof converted by From<io::Error>
ErrEof == ErrMalformed(<<"Unexpected end of message">>)
\* results of read_ptp_str: Ok(String) or Err(Error)
NoStr == [ok |-> FALSE, kind |-> "None", msg |-> <<>>, str |-> <<>>]
OkStr(x) == [ok |-> TRUE, kind |-> "Ok", msg |-> <<>>, str |-> x]
ErrStr(m) == [ok |-> FALSE, kind |-> "Malformed", msg |-> m, str |-> <<>>]

\* results of DataType::read_type and of the dataset decoders: Ok(value) or Err
NoVal == [ok |-> FALSE, kind |-> "None", msg |-> <<>>, val |-> <<>>]
OkVal(v) == [ok |-> TRUE, kind |-> "Ok", msg |-> <<>>, val |-> v]
ErrVal(m) == [ok |-> FALSE, kind |-> "Malformed", msg |-> m, val |-> <<>>]
EofVal == ErrVal(<<"Unexpected end of message">>)
\* results of the facade's methods: Ok(value) or Err(Error)
NoRet == [ok |-> FALSE, kind |-> "None", code |-> 0, msg |-> <<>>, val |-> <<>>]
OkRet(v) == [ok |-> TRUE, kind |-> "Ok", code |-> 0, msg |-> <<>>, val |-> v]
\* `?` on the Result of command(), of a decoder, of release_interface
ErrOf(r) == [ok |-> FALSE, kind |-> r.kind, code |-> r.code, msg |-> r.msg, val |-> <<>>]
FromVal(v) == [ok |-> v.ok, kind |-> v.kind, code |-> 0, msg |-> v.msg, val |-> v.val]

\* ------------------------------------------------------------------ state
VARIABLES
    mode,               \* which environment is explored ("txn", "read", "write" ...)
    build,              \* "debug" (overflow checks on) or "release" (wrapping)
    current_tid,        \* Camera::current_tid, a u32
    pc,                 \* position of the caller inside command()
    calls,              \* number of command() calls started
    used,               \* tid taken by each call so far, in call order
    code, params, data, \* arguments of the running call
    tid,                \* local `tid` of the running call
    w_kind, w_payload,  \* arguments of the running write_txn_phase
    w_off,              \* payload offset of the next chunk to write
    xfers,              \* bulk transfers issued by the running call, in order
    data_phase_payload, \* local of command()
    cinfo, payload, cap,\* locals of read_txn_phase between its two reads
    received,           \* (ContainerInfo, payload) pairs returned by read_txn_phase
    result,             \* what the last finished call returned
    s_pc, s_val, s_bytes,  \* the string codec: position, input string, encoding
    s_pos, s_res,          \* cursor position and result of read_ptp_str
    d_pc, d_tag, d_val,    \* the DataType codec: position, datatype code, value
    d_bytes, d_pos, d_res, \* its encoding, cursor position and read_type result
    d_end,                 \* result of expect_end
    f_pc, f_op,            \* the facade: position of its caller, the running call
    f_ret,                 \* what the last finished facade call returned
    release_calls          \* release_interface calls made so far

camvars == <<mode, build, current_tid, pc, calls, used, code, params, data, tid,
             w_kind, w_payload, w_off, xfers, data_phase_payload, cinfo,
             payload, cap, received, result>>
strvars == <<s_pc, s_val, s_bytes, s_pos, s_res>>
datavars == <<d_pc, d_tag, d_val, d_bytes, d_pos, d_res, d_end>>
codecvars == <<strvars, datavars>>
facvars == <<f_pc, f_op, f_ret, release_calls>>
vars == <<camvars, codecvars, facvars>>

NoCinfo == [payload_len |-> USize(0), kind |-> 0, code |-> 0, tid |-> U32(0)]

\* ------------------------------------------------------ callers' requests
GetDeviceInfo == 4097      \* 0x1001
OpenSession == 4098        \* 0x1002
CloseSession == 4099       \* 0x1003
GetStorageIDs == 4100      \* 0x1004
GetStorageInfo == 4101     \* 0x1005
GetNumObjects == 4102      \* 0x1006
GetObjectHandles == 4103   \* 0x1007
GetObjectInfo == 4104      \* 0x1008
GetObject == 4105          \* 0x1009
SendObjectInfo == 4108     \* 0x100C
SendObject == 4109         \* 0x100D
InvalidObjectHandle == 8201 \* 0x2009

Request(c, ps, some, d) == [code |-> c, params |-> ps, some |-> some, data |-> d]

Requests(m) ==
    IF m = "txn" THEN
        { Request(GetDeviceInfo, <<>>, FALSE, NoSlice),
          Request(SendObject, <<>>, TRUE, Slice(<<>>)),
          Request(SendObjectInfo, <<<<1, 1>>, <<65535, 65535>>>>, TRUE, Slice(<<170, 187>>)),
          Request(SendObject, <<>>, TRUE, Opaque(<<65525, 15, 0, 0>>)) }          \* CHUNK_SIZE - 11
    ELSE IF m = "read" THEN
        { Request(SendObject, <<>>, TRUE, Opaque(<<65525, 15, 0, 0>>)) }    \* CHUNK_SIZE - 11
    ELSE IF m = "live" THEN
        { Request(GetDeviceInfo, <<>>, FALSE, NoSlice),
          Request(SendObject, <<>>, TRUE, Opaque(<<65525, 15, 0, 0>>)) }    \* CHUNK_SIZE - 11
    ELSE IF m = "chunk" THEN
        { Request(SendObjectInfo, <<<<1, 1>>>>, TRUE, Slice(<<170, 187, 204>>)),
          Request(SendObject, <<>>, TRUE, Opaque(<<65523, 15, 0, 0>>)),     \* CHUNK_SIZE - 13
          Request(SendObject, <<>>, TRUE, Opaque(<<65524, 15, 0, 0>>)),     \* CHUNK_SIZE - 12
          Request(SendObject, <<>>, TRUE, Opaque(<<65525, 15, 0, 0>>)),     \* CHUNK_SIZE - 11
          Request(SendObject, <<>>, TRUE, Opaque(<<65524, 31, 0, 0>>)),     \* 2 * CHUNK_SIZE - 12
          Request(SendObject, <<>>, TRUE, Opaque(<<0, 32, 0, 0>>)),         \* 2 * CHUNK_SIZE
          Request(SendObject, <<>>, TRUE, Opaque(<<5, 48, 0, 0>>)) }        \* 3 * CHUNK_SIZE + 5
    ELSE
        { Request(SendObject, <<>>, TRUE, Opaque(<<65524, 15, 0, 0>>)),     \* CHUNK_SIZE - 12
          Request(SendObject, <<>>, TRUE, Opaque(<<65525, 15, 0, 0>>)),     \* CHUNK_SIZE - 11
          Request(SendObject, <<U32(2)>>, TRUE, Opaque(<<0, 32, 0, 0>>)),   \* 2 * CHUNK_SIZE
          Request(SendObject, <<>>, TRUE, Opaque(<<65524, 65535, 0, 0>>)) } \* 2^32 - 12

CallLimit(m) == IF m \in {"txn", "facade"} THEN MaxCalls ELSE 1
ContainerLimit(m) == IF m \in {"read", "facade"} THEN MaxSplit ELSE MaxContainers

\* ------------------------------------------------------------ Camera::new
InitCam(m) ==
    /\ mode = m
    /\ build \in {"debug", "release"}
    /\ current_tid = U32(0)
    /\ pc = "idle"
    /\ calls = 0
    /\ used = <<>>
    /\ code = 0 /\ params = <<>> /\ data = [some |-> FALSE, slice |-> NoSlice]
    /\ tid = U32(0)
    /\ w_kind = 0 /\ w_payload = NoSlice /\ w_off = USize(0)
    /\ xfers = <<>>
    /\ data_phase_payload = NoSlice
    /\ cinfo = NoCinfo /\ payload = NoSlice /\ cap = USize(0)
    /\ received = <<>>
    /\ result = NoResult

\* the string codec is not in use
StrOff == s_pc = "off" /\ s_val = <<>> /\ s_bytes = <<>> /\ s_pos = 0 /\ s_res = NoStr
\* the DataType codec is not in use
DataOff ==
    /\ d_pc = "off" /\ d_tag = 0 /\ d_val = <<>> /\ d_bytes = <<>> /\ d_pos = 0
    /\ d_res = NoVal /\ d_end = NoVal
\* no method of the facade has been called
NoCall ==
    [name |-> "none", storage_id |-> U32(0), handle_id |-> U32(0),
     filter |-> [some |-> FALSE, v |-> U32(0)]]
\* command() is called directly, not through the facade
FacOff == f_pc = "off" /\ f_op = NoCall /\ f_ret = NoRet /\ release_calls = 0

\* a fresh Camera whose callers make ordinary requests of a talkative device
Init == InitCam("txn") /\ StrOff /\ DataOff /\ FacOff
\* ... whose device splits and mis-sizes its containers in every way
InitRead == InitCam("read") /\ StrOff /\ DataOff /\ FacOff
\* ... whose callers send payloads of a mebibyte and of four gibibytes
InitWrite == InitCam("write") /\ StrOff /\ DataOff /\ FacOff
\* ... whose callers send payloads around the multiples of the chunk size
InitChunk == InitCam("chunk") /\ StrOff /\ DataOff /\ FacOff
\* ... whose bulk transfers all return, sooner or later
InitLive == InitCam("live") /\ StrOff /\ DataOff /\ FacOff

\* ------------------------------------------------------- Camera::command
\* the request payload: every parameter as a little-endian u32, in order
RECURSIVE request_payload(_)
request_payload(ps) ==
    IF ps = <<>> THEN <<>> ELSE LE32(Head(ps)) \o request_payload(Tail(ps))

\* (mutant) the increment is forgotten
NextTid_none(t) == [v |-> t, overflow |-> FALSE]
\* `self.current_tid += 1`
NextTid(t) == Add(t, U32(1))

\* entry of command(): take the tid, bump current_tid, start the Command phase
command(rq) ==
    /\ pc = "idle"
    /\ calls < CallLimit(mode)
    /\ LET inc == NextTid(current_tid)
       IN  /\ current_tid' = inc.v
           /\ pc' = IF inc.overflow /\ build = "debug" THEN "panic" ELSE "wfirst"
    /\ tid' = current_tid
    /\ calls' = calls + 1
    /\ used' = Append(used, tid')
    /\ code' = rq.code /\ params' = rq.params
    /\ data' = [some |-> rq.some, slice |-> rq.data]
    /\ w_kind' = KindCommand
    /\ w_payload' = Slice(request_payload(rq.params))
    /\ w_off' = USize(0)
    /\ xfers' = <<>>
    /\ data_phase_payload' = NoSlice
    /\ cinfo' = NoCinfo /\ payload' = NoSlice /\ cap' = USize(0)
    /\ received' = <<>>
    /\ result' = NoResult
    /\ UNCHANGED <<mode, build, codecvars>>

\* a caller outside the facade calls command()
call(rq) == command(rq) /\ UNCHANGED facvars

\* ----------------------------------------------- Camera::write_txn_phase
\* (mutant) the header is not counted in the first chunk
first_chunk_payload_bytes_no_header(p) == Min(p.len, CHUNK_SIZE)

\* payload bytes that travel with the header in the first bulk write
first_chunk_payload_bytes(p) ==
    Min(p.len, Sub(CHUNK_SIZE, USize(CONTAINER_INFO_SIZE)).v)

\* the 12-byte container header
Header(k, c, t, p) ==
    LE32(AsU32(Add(p.len, USize(CONTAINER_INFO_SIZE)).v)) \o LE16(k) \o LE16(c) \o LE32(t)

\* payload[lo..hi] of a slice
SubSlice(p, lo, hi) ==
    [len |-> Sub(hi, lo).v,
     bytes |-> IF Tracked(p) THEN SubSeq(p.bytes, ToNat(lo) + 1, ToNat(hi)) ELSE <<>>]

\* the temporary buffer of the first bulk write: header, then the first chunk
FirstBuf(k, c, t, p) ==
    LET first == SubSlice(p, USize(0), first_chunk_payload_bytes(p))
    IN  [len |-> Add(first.len, USize(CONTAINER_INFO_SIZE)).v,
         bytes |-> Header(k, c, t, p) \o first.bytes]

\* the chunk of payload[first..].chunks(CHUNK_SIZE) that starts at offset off
Chunk(p, off) == SubSlice(p, off, Add(off, Min(CHUNK_SIZE, Sub(p.len, off).v)).v)

\* one bulk transfer: direction, the phase it belongs to (0 for a read),
\* whether it is the first of its phase, the buffer, and whether it succeeded
Xfer(dir, k, head, b, ok) ==
    [dir |-> dir, kind |-> k, head |-> head, len |-> b.len, bytes |-> b.bytes, ok |-> ok]

\* (mutant) the failed write is issued again
FailUsb_retry ==
    /\ pc' = pc
    /\ result' = result
    /\ UNCHANGED <<w_kind, w_payload, w_off, data_phase_payload, cinfo, payload, cap, received>>

\* a `?` on a failed bulk transfer: command() returns Error::Usb
FailUsb ==
    /\ pc' = "idle"
    /\ result' = ErrUsb
    /\ UNCHANGED <<w_kind, w_payload, w_off, data_phase_payload, cinfo, payload, cap, received>>

\* (mutant) an empty `data` is treated like None
AfterWrite_skip_empty(off) ==
    /\ result' = result
    /\ UNCHANGED <<data_phase_payload, cinfo, payload, cap, received>>
    /\ IF off # w_payload.len
       THEN pc' = "wrest" /\ w_off' = off /\ UNCHANGED <<w_kind, w_payload>>
       ELSE IF w_kind = KindCommand /\ data.some /\ data.slice.len # USize(0)
       THEN pc' = "wfirst" /\ w_kind' = KindData /\ w_payload' = data.slice /\ w_off' = USize(0)
       ELSE pc' = "read1" /\ w_off' = off /\ UNCHANGED <<w_kind, w_payload>>

\* after a bulk write that reached payload offset off: the next chunk, the
\* Data phase, or the read loop
AfterWrite(off) ==
    /\ result' = result
    /\ UNCHANGED <<data_phase_payload, cinfo, payload, cap, received>>
    /\ IF off # w_payload.len
       THEN pc' = "wrest" /\ w_off' = off /\ UNCHANGED <<w_kind, w_payload>>
       ELSE IF w_kind = KindCommand /\ data.some
       THEN pc' = "wfirst" /\ w_kind' = KindData /\ w_payload' = data.slice /\ w_off' = USize(0)
       ELSE pc' = "read1" /\ w_off' = off /\ UNCHANGED <<w_kind, w_payload>>

\* first write_bulk of a phase: the header and the first chunk
write_first(ok) ==
    /\ pc = "wfirst"
    /\ xfers' = Append(xfers, Xfer("out", w_kind, TRUE, FirstBuf(w_kind, code, tid, w_payload), ok))
    /\ IF ok THEN AfterWrite(first_chunk_payload_bytes(w_payload)) ELSE FailUsb
    /\ UNCHANGED <<mode, build, current_tid, calls, used, code, params, data, tid, codecvars, facvars>>

\* a later write_bulk of a phase: the next chunk, straight from the caller's slice
write_chunk(ok) ==
    /\ pc = "wrest"
    /\ LET chunk == Chunk(w_payload, w_off)
       IN  /\ xfers' = Append(xfers, Xfer("out", w_kind, FALSE, chunk, ok))
           /\ IF ok THEN AfterWrite(Add(w_off, chunk.len).v) ELSE FailUsb
    /\ UNCHANGED <<mode, build, current_tid, calls, used, code, params, data, tid, codecvars, facvars>>

\* ------------------------------------------------- the device (bulk IN)
\* content of the payload bytes the device sends: byte i of the c-th container
DevByte(c, i) == (16 * c + i) % 256
DevBytes(c, from, n) == [i \in 1..n |-> DevByte(c, from + i - 1)]
\* n payload bytes of the c-th container from position `from` on; the content
\* of a long run is not tracked
DevSlice(c, from, n) ==
    IF n <= MaxTail + 1 THEN Slice(DevBytes(c, from, n)) ELSE Opaque(USize(n))

\* a tid the running call does not have
OtherTids(t) == { <<7, 0>>, <<t[1], 1>> }

\* what one bulk read can return for a container: the header declares `len`,
\* k payload bytes follow it, and only the first n bytes of all that arrive
Sent(len, k, c, t, pk, n) == [len |-> len, kind |-> k, code |-> c, tid |-> t, pk |-> pk, n |-> n]
Whole(pl, k, c, t) == Sent(U32(CONTAINER_INFO_SIZE + pl), k, c, t, pl, CONTAINER_INFO_SIZE + pl)
Part(pl, pk, k, c, t) == Sent(U32(CONTAINER_INFO_SIZE + pl), k, c, t, pk, CONTAINER_INFO_SIZE + pk)

\* a container whose payload bytes are spelled out: the header declares their
\* number plus `more`, and all of them arrive in the first bulk read
WithBody(k, c, t, bs, more) ==
    [len |-> U32(CONTAINER_INFO_SIZE + Len(bs) + more), kind |-> k, code |-> c, tid |-> t,
     pk |-> Len(bs), n |-> CONTAINER_INFO_SIZE + Len(bs), body |-> bs]

\* datasets a device answers with, as PTP lays them out
StrEmpty == <<0>>
StrA == <<2, 65, 0, 0, 0>>                         \* "A"
NoU16s == LE32(U32(0))
TwoU16s == LE32(U32(2)) \o LE16(4097) \o LE16(4098)
DeviceInfoBytes(str, arr) ==
    LE16(100) \o LE32(U32(6)) \o LE16(100) \o str \o LE16(0)
    \o arr \o NoU16s \o NoU16s \o NoU16s \o arr \o str \o str \o str \o str
ObjectInfoBytes(str) ==
    LE32(<<1, 1>>) \o LE16(14337) \o LE16(0) \o LE32(U32(1000)) \o LE16(14337)
    \o LE32(U32(0)) \o LE32(U32(0)) \o LE32(U32(0)) \o LE32(U32(640)) \o LE32(U32(480))
    \o LE32(U32(24)) \o LE32(U32(0)) \o LE16(0) \o LE32(U32(0)) \o LE32(U32(7))
    \o str \o str \o str \o str
StorageInfoBytes(str) ==
    LE16(3) \o LE16(2) \o LE16(0) \o LE32(<<0, 1>>) \o LE32(U32(1)) \o LE32(<<65535, 65535>>)
    \o LE32(U32(0)) \o LE32(U32(12)) \o str \o str

\* well-formed Data payloads for the operation with command code c
Datasets(c) ==
    IF c = GetDeviceInfo THEN { DeviceInfoBytes(StrEmpty, NoU16s), DeviceInfoBytes(StrA, TwoU16s) }
    ELSE IF c = GetObjectInfo THEN { ObjectInfoBytes(StrEmpty), ObjectInfoBytes(StrA) }
    ELSE IF c = GetStorageInfo THEN { StorageInfoBytes(StrEmpty), StorageInfoBytes(StrA) }
    ELSE IF c \in {GetStorageIDs, GetObjectHandles}
    THEN { LE32(U32(0)), LE32(U32(2)) \o LE32(<<1, 1>>) \o LE32(<<2, 1>>) }
    ELSE IF c = GetNumObjects THEN { LE32(U32(10)) }
    ELSE {}

\* what the device puts into a Data container: a dataset, a dataset with one
\* more byte, a dataset short of its last byte
Payloads(c) ==
    UNION { { v, v \o <<0>>, SubSeq(v, 1, Len(v) - 1) } : v \in Datasets(c) }

SentBytes(d, c) ==
    LET body == IF "body" \in DOMAIN d THEN Slice(d.body) ELSE DevSlice(c, 1, d.pk)
        all == LE32(d.len) \o LE16(d.kind) \o LE16(d.code) \o LE32(d.tid) \o body.bytes
    IN  [len |-> USize(d.n), bytes |-> SubSeq(all, 1, IF d.n < Len(all) THEN d.n ELSE Len(all))]

FirstReads(m, t, c) ==
    IF m = "txn" THEN
        { Whole(0, KindResponse, rc, tt) :
            rc \in {ResponseOk, InvalidObjectHandle}, tt \in {t} \cup OtherTids(t) }
        \cup { Whole(0, KindData, c, t), Whole(2, KindData, c, t), Part(1, 0, KindData, c, t),
               Whole(2, KindData, c, <<7, 0>>), Whole(0, KindCommand, c, t),
               Whole(0, KindEvent, c, t), Whole(2, KindEvent, c, t), Whole(0, KindEvent, c, <<7, 0>>) }
        \cup { Whole(0, 5, c, t), Sent(U32(12), KindResponse, ResponseOk, t, 0, 11),
               Sent(U32(0), KindResponse, ResponseOk, t, 0, 12) }
    ELSE IF m = "read" THEN
        { Part(x[1], x[2], KindData, c, t) :
            x \in { <<0, 0>>, <<0, 1>>, <<1, 1>>, <<2, 0>>, <<2, 1>>, <<2, 2>>, <<2, 3>>,
                    <<SCRATCH_SIZE - 12, SCRATCH_SIZE - 12>>, <<2, SCRATCH_SIZE - 12>>,
                    <<SCRATCH_SIZE - 11, SCRATCH_SIZE - 12>>, <<9000, SCRATCH_SIZE - 12>>,
                    <<SCRATCH_SIZE - 13, SCRATCH_SIZE - 13>> } }
        \cup { Part(x[1], x[2], KindResponse, rc, t) :
                 x \in { <<0, 0>>, <<2, 1>> }, rc \in {ResponseOk, InvalidObjectHandle} }
        \cup { Whole(0, KindResponse, ResponseOk, <<7, 0>>), Whole(1, KindData, c, <<7, 0>>),
               Whole(0, KindEvent, c, t), Whole(1, KindEvent, c, t), Whole(0, KindCommand, c, t) }
        \cup { Whole(0, k, c, tt) : k \in {0, 5, 65535}, tt \in {t, <<7, 0>>} }
        \cup { Sent(U32(l), k, ResponseOk, t, pk, 12 + pk) :
                 l \in {0, 10, 11}, k \in {KindData, KindResponse}, pk \in {0, 1} }
        \cup { Sent(U32(12), k, ResponseOk, t, 0, n) :
                 k \in {0, KindResponse}, n \in {0, 3, 4, 5, 6, 7, 8, 11} }
    ELSE IF m = "live" THEN
        { Whole(0, KindResponse, ResponseOk, t), Whole(2, KindResponse, InvalidObjectHandle, t),
          Part(1, 0, KindResponse, ResponseOk, t), Whole(0, KindResponse, ResponseOk, <<7, 0>>),
          Whole(2, KindData, c, t), Part(1, 0, KindData, c, t), Whole(0, KindData, c, <<7, 0>>),
          Whole(0, KindCommand, c, t), Whole(1, KindEvent, c, t),
          Whole(0, 5, c, t), Sent(U32(12), KindResponse, ResponseOk, t, 0, 11),
          Sent(U32(0), KindResponse, ResponseOk, t, 0, 12),
          Sent(U32(11), KindData, c, t, 0, 12) }
    ELSE IF m = "facade" THEN
        { WithBody(KindResponse, rc, t, <<>>, 0) : rc \in {ResponseOk, InvalidObjectHandle} }
        \cup { WithBody(KindData, c, t, bs, 0) : bs \in Payloads(c) }
        \cup (IF c = GetObject THEN { WithBody(KindData, c, t, <<1>>, 2) } ELSE {})
    ELSE
        { Whole(0, KindResponse, ResponseOk, t), Whole(0, KindResponse, InvalidObjectHandle, t),
          Part(1, 0, KindData, c, t) }

\* ------------------------------------------------- ContainerInfo::parse
\* st = "ok" with the ContainerInfo, "err" with the Error, or "panic"
Parsed(ci) == [st |-> "ok", cinfo |-> ci, err |-> NoResult]
ParseErr(e) == [st |-> "err", cinfo |-> NoCinfo, err |-> e]
ParsePanic == [st |-> "panic", cinfo |-> NoCinfo, err |-> NoResult]

\* (mutant) the whole header is awaited before its kind is looked at
parse_whole_first(buf, bld) ==
    LET b == buf.bytes IN
    IF Len(b) < CONTAINER_INFO_SIZE THEN ParseErr(ErrEof)
    ELSE IF from_u16(RdU16(b, 5)) = 0
         THEN ParseErr(ErrMalformed(<<"Invalid message type", RdU16(b, 5)>>))
    ELSE LET d == Sub(AsUSize(RdU32(b, 1)), USize(CONTAINER_INFO_SIZE))
         IN  IF d.overflow /\ bld = "debug" THEN ParsePanic
             ELSE Parsed([payload_len |-> d.v, kind |-> from_u16(RdU16(b, 5)),
                          code |-> RdU16(b, 7), tid |-> RdU32(b, 9)])

parse(buf, bld) ==
    LET b == buf.bytes IN
    IF Len(b) < 4 THEN ParseErr(ErrEof)
    ELSE IF Len(b) < 6 THEN ParseErr(ErrEof)
    ELSE IF from_u16(RdU16(b, 5)) = 0
         THEN ParseErr(ErrMalformed(<<"Invalid message type", RdU16(b, 5)>>))
    ELSE IF Len(b) < 8 THEN ParseErr(ErrEof)
    ELSE IF Len(b) < 12 THEN ParseErr(ErrEof)
    ELSE LET d == Sub(AsUSize(RdU32(b, 1)), USize(CONTAINER_INFO_SIZE))
         IN  IF d.overflow /\ bld = "debug" THEN ParsePanic
             ELSE Parsed([payload_len |-> d.v, kind |-> from_u16(RdU16(b, 5)),
                          code |-> RdU16(b, 7), tid |-> RdU32(b, 9)])

belongs_to(ci, t) == ci.tid = t

\* ------------------------------------------- the read loop of command()
\* (mutant) a Data payload is appended to the one already held
LoopBody_append(ci, pl, dpp, t) ==
    IF ~belongs_to(ci, t)
    THEN [done |-> TRUE, dpp |-> dpp,
          result |-> ErrMalformed(<<"mismatched txnid ", ci.tid, ", expecting ", t>>)]
    ELSE IF ci.kind = KindData
    THEN [done |-> FALSE, dpp |-> Concat(dpp, pl), result |-> NoResult]
    ELSE IF ci.kind = KindResponse
    THEN IF ci.code # ResponseOk
         THEN [done |-> TRUE, dpp |-> dpp, result |-> ErrResponse(ci.code)]
         ELSE [done |-> TRUE, dpp |-> dpp, result |-> Ok(dpp)]
    ELSE [done |-> FALSE, dpp |-> dpp, result |-> NoResult]

\* (mutant) a Response that follows a Data phase is taken as success
LoopBody_data_wins(ci, pl, dpp, t) ==
    IF ~belongs_to(ci, t)
    THEN [done |-> TRUE, dpp |-> dpp,
          result |-> ErrMalformed(<<"mismatched txnid ", ci.tid, ", expecting ", t>>)]
    ELSE IF ci.kind = KindData
    THEN [done |-> FALSE, dpp |-> pl, result |-> NoResult]
    ELSE IF ci.kind = KindResponse
    THEN IF ci.code # ResponseOk /\ dpp = NoSlice
         THEN [done |-> TRUE, dpp |-> dpp, result |-> ErrResponse(ci.code)]
         ELSE [done |-> TRUE, dpp |-> dpp, result |-> Ok(dpp)]
    ELSE [done |-> FALSE, dpp |-> dpp, result |-> NoResult]

\* (mutant) the kind is examined before the tid
LoopBody_kind_first(ci, pl, dpp, t) ==
    IF ci.kind = KindData
    THEN IF belongs_to(ci, t)
         THEN [done |-> FALSE, dpp |-> pl, result |-> NoResult]
         ELSE [done |-> TRUE, dpp |-> pl,
               result |-> ErrMalformed(<<"mismatched txnid ", ci.tid, ", expecting ", t>>)]
    ELSE IF ci.kind = KindResponse
    THEN IF ci.code # ResponseOk
         THEN [done |-> TRUE, dpp |-> dpp, result |-> ErrResponse(ci.code)]
         ELSE IF belongs_to(ci, t)
         THEN [done |-> TRUE, dpp |-> dpp, result |-> Ok(dpp)]
         ELSE [done |-> TRUE, dpp |-> dpp,
               result |-> ErrMalformed(<<"mismatched txnid ", ci.tid, ", expecting ", t>>)]
    ELSE [done |-> FALSE, dpp |-> dpp, result |-> NoResult]

\* (mutant) a container of another kind takes the place of the Data payload
LoopBody_other_resets(ci, pl, dpp, t) ==
    IF ~belongs_to(ci, t)
    THEN [done |-> TRUE, dpp |-> dpp,
          result |-> ErrMalformed(<<"mismatched txnid ", ci.tid, ", expecting ", t>>)]
    ELSE IF ci.kind = KindResponse
    THEN IF ci.code # ResponseOk
         THEN [done |-> TRUE, dpp |-> dpp, result |-> ErrResponse(ci.code)]
         ELSE [done |-> TRUE, dpp |-> dpp, result |-> Ok(dpp)]
    ELSE [done |-> FALSE, dpp |-> pl, result |-> NoResult]

\* one turn of the loop on what read_txn_phase returned
LoopBody(ci, pl, dpp, t) ==
    IF ~belongs_to(ci, t)
    THEN [done |-> TRUE, dpp |-> dpp,
          result |-> ErrMalformed(<<"mismatched txnid ", ci.tid, ", expecting ", t>>)]
    ELSE IF ci.kind = KindData
    THEN [done |-> FALSE, dpp |-> pl, result |-> NoResult]
    ELSE IF ci.kind = KindResponse
    THEN IF ci.code # ResponseOk
         THEN [done |-> TRUE, dpp |-> dpp, result |-> ErrResponse(ci.code)]
         ELSE [done |-> TRUE, dpp |-> dpp, result |-> Ok(dpp)]
    ELSE [done |-> FALSE, dpp |-> dpp, result |-> NoResult]

\* read_txn_phase returns Ok((ci, pl)) and the loop of command() takes its turn
Return(ci, pl) ==
    /\ received' = Append(received, [cinfo |-> ci, payload |-> pl])
    /\ LET o == LoopBody(ci, pl, data_phase_payload, tid)
       IN  /\ data_phase_payload' = o.dpp
           /\ result' = o.result
           /\ pc' = IF o.done THEN "idle" ELSE "read1"
    /\ cinfo' = ci /\ payload' = pl

\* read_txn_phase returns Err(e) and `?` makes command() return it
Fail(e) ==
    /\ pc' = "idle"
    /\ result' = e
    /\ UNCHANGED <<data_phase_payload, cinfo, payload, cap, received>>

Panic ==
    /\ pc' = "panic"
    /\ UNCHANGED <<data_phase_payload, cinfo, payload, cap, received, result>>

\* ------------------------------------------------ Camera::read_txn_phase
Max(a, b) == IF a < b THEN b ELSE a

\* capacity of Vec::with_capacity(c) after extend_from_slice of n bytes
\* (the vector grows to max(2 * capacity, n, 8) when n bytes do not fit)
Grown(c, n) ==
    IF ~Lt(c, USize(n)) THEN c ELSE USize(Max(Max(2 * ToNat(c), n), 8))

\* isize::MAX < c: Vec::with_capacity panics with "capacity overflow"
TooBig(c) == c[4] >= 32768

\* buf[CONTAINER_INFO_SIZE..] of the scratch buffer
AfterHeader(buf) ==
    IF Tracked(buf) THEN Slice(SubSeq(buf.bytes, CONTAINER_INFO_SIZE + 1, Len(buf.bytes)))
    ELSE Opaque(Sub(buf.len, USize(CONTAINER_INFO_SIZE)).v)

\* first read_bulk, into the 8 KiB scratch buffer
read_first(ok, d) ==
    /\ pc = "read1"
    /\ Len(received) < ContainerLimit(mode)
    /\ LET buf == SentBytes(d, Len(received) + 1)
           p == parse(buf, build)
           capacity == Add(p.cinfo.payload_len, USize(1))
           first == AfterHeader(buf)
       IN  /\ xfers' = Append(xfers, Xfer("in", 0, TRUE, IF ok THEN buf ELSE NoSlice, ok))
           /\ IF ~ok THEN Fail(ErrUsb)
              ELSE IF p.st = "err" THEN Fail(p.err)
              ELSE IF p.st = "panic" THEN Panic
              ELSE IF p.cinfo.payload_len = USize(0) THEN Return(p.cinfo, NoSlice) /\ cap' = cap
              ELSE IF capacity.overflow /\ build = "debug" THEN Panic
              ELSE IF TooBig(capacity.v) THEN Panic
              ELSE IF Lt(first.len, p.cinfo.payload_len) \/ buf.len = USize(SCRATCH_SIZE)
                   THEN /\ pc' = "read2"
                        /\ cinfo' = p.cinfo /\ payload' = first
                        /\ cap' = Grown(capacity.v, ToNat(first.len))
                        /\ UNCHANGED <<data_phase_payload, received, result>>
                   ELSE Return(p.cinfo, first) /\ cap' = Grown(capacity.v, ToNat(first.len))
    /\ UNCHANGED <<mode, build, current_tid, calls, used, code, params, data, tid,
                   w_kind, w_payload, w_off, codecvars, facvars>>

\* sizes of what the device may put into a second bulk read of `room` bytes:
\* nothing, a few bytes, or exactly the missing rest of the container
SecondReads(room, missing) ==
    { n \in 0..MaxTail : ~Lt(room, USize(n)) }
    \cup (IF IsSmall(missing) /\ ~Lt(room, missing) THEN {ToNat(missing)} ELSE {})

\* second read_bulk, into the spare capacity of the payload vector
read_second(ok, n) ==
    /\ pc = "read2"
    /\ LET more == DevSlice(Len(received) + 1, ToNat(payload.len) + 1, n)
       IN  /\ xfers' = Append(xfers, Xfer("in", 0, FALSE, IF ok THEN more ELSE NoSlice, ok))
           /\ IF ok THEN Return(cinfo, Concat(payload, more)) /\ cap' = cap ELSE Fail(ErrUsb)
    /\ UNCHANGED <<mode, build, current_tid, calls, used, code, params, data, tid,
                   w_kind, w_payload, w_off, codecvars, facvars>>

\* ---------------------------------------------------------- the program
Next ==
    \/ \E rq \in Requests(mode) : call(rq)
    \/ \E ok \in BOOLEAN : write_first(ok)
    \/ \E ok \in BOOLEAN : write_chunk(ok)
    \/ \E ok \in BOOLEAN, d \in FirstReads(mode, tid, code) : read_first(ok, d)
    \/ \E ok \in BOOLEAN :
         \E n \in SecondReads(Sub(cap, payload.len).v,
                              Sub(cinfo.payload_len, payload.len).v) : read_second(ok, n)

Spec == Init /\ [][Next]_vars


SpecRead == InitRead /\ [][Next]_vars
SpecWrite == InitWrite /\ [][Next]_vars
SpecChunk == InitChunk /\ [][Next]_vars

\* every bulk transfer the program issues returns: libusb completes it or
\* fails it, it does not block for ever
TransfersReturn ==
    /\ WF_vars(\E ok \in BOOLEAN : write_first(ok))
    /\ WF_vars(\E ok \in BOOLEAN : write_chunk(ok))
    /\ WF_vars(\E ok \in BOOLEAN, d \in FirstReads(mode, tid, code) : read_first(ok, d))
    /\ WF_vars(\E ok \in BOOLEAN :
                 \E n \in SecondReads(Sub(cap, payload.len).v,
                                      Sub(cinfo.payload_len, payload.len).v) : read_second(ok, n))
SpecLive == InitLive /\ [][Next]_vars /\ TransfersReturn

\* ------------------------------------------------------ the string codec
\* a String is the tuple of its Unicode scalar values
Chars == {65, 233, 8364, 128512}      \* 'A', U+00E9, U+20AC, U+1F600

RECURSIVE Strings(_)
Strings(n) ==
    IF n = 0 THEN {<<>>}
    ELSE Strings(n - 1) \cup { Append(x, ch) : x \in Strings(n - 1), ch \in Chars }

\* bytes of one char in UTF-8, and String::len()
utf8_len(ch) == IF ch < 128 THEN 1 ELSE IF ch < 2048 THEN 2 ELSE IF ch < 65536 THEN 3 ELSE 4
RECURSIVE str_len(_)
str_len(x) == IF x = <<>> THEN 0 ELSE utf8_len(Head(x)) + str_len(Tail(x))

\* str::encode_utf16: the UTF-16 code units of a string
RECURSIVE encode_utf16(_)
encode_utf16(x) ==
    IF x = <<>> THEN <<>>
    ELSE LET ch == Head(x)
         IN  (IF ch < 65536 THEN <<ch>>
              ELSE <<55296 + ((ch - 65536) \div 1024), 56320 + ((ch - 65536) % 1024)>>)
             \o encode_utf16(Tail(x))

RECURSIVE units_le(_)
units_le(us) == IF us = <<>> THEN <<>> ELSE LE16(Head(us)) \o units_le(Tail(us))

\* the length prefix DataType::STR writes: ((val.len() as u8) * 2) + 1
str_prefix(x) == ((str_len(x) % 256) * 2) + 1

\* DataType::STR(x).encode(): the bytes, or a panic on u8 overflow when
\* overflow checks are compiled in
encode(x, bld) ==
    IF str_prefix(x) > 255 /\ bld = "debug" THEN [panic |-> TRUE, out |-> <<>>]
    ELSE [panic |-> FALSE,
          out |-> <<str_prefix(x) % 256>>
                  \o (IF x # <<>> THEN units_le(encode_utf16(x)) \o <<0, 0>> ELSE <<>>)]

\* String::from_utf16: the scalar values, or <<-1>> for an unpaired surrogate
IsHigh(u) == u >= 55296 /\ u <= 56319
IsLow(u) == u >= 56320 /\ u <= 57343
RECURSIVE from_utf16(_)
from_utf16(us) ==
    IF us = <<>> THEN <<>>
    ELSE IF IsHigh(us[1])
    THEN IF Len(us) >= 2 /\ IsLow(us[2])
         THEN LET rest == from_utf16(SubSeq(us, 3, Len(us)))
              IN  IF rest = <<-1>> THEN rest
                  ELSE <<65536 + (us[1] - 55296) * 1024 + (us[2] - 56320)>> \o rest
         ELSE <<-1>>
    ELSE IF IsLow(us[1]) THEN <<-1>>
    ELSE LET rest == from_utf16(Tail(us))
         IN  IF rest = <<-1>> THEN rest ELSE <<us[1]>> \o rest

\* (mutant) the trailing code unit is required to be 0x0000
read_ptp_str_checked(b) ==
    IF Len(b) < 1 THEN [res |-> ErrStr(<<"Unexpected end of message">>), pos |-> 0]
    ELSE LET len == b[1]
             have == (Len(b) - 1) \div 2
             units == [i \in 1..(len - 1) |-> RdU16(b, 2 * i)]
         IN  IF len > 0
             THEN IF have < len
                  THEN [res |-> ErrStr(<<"Unexpected end of message">>), pos |-> 1 + 2 * have]
                  ELSE [res |-> IF from_utf16(units) = <<-1>> \/ RdU16(b, 2 * len) # 0
                                THEN ErrStr(<<"Invalid UTF16 data", units>>)
                                ELSE OkStr(from_utf16(units)),
                        pos |-> 1 + 2 * len]
             ELSE [res |-> OkStr(<<>>), pos |-> 1]

\* PtpRead::read_ptp_str on a cursor at the start of b: the result and the
\* cursor position afterwards (a failed read_u16 leaves the cursor in place)
read_ptp_str(b) ==
    IF Len(b) < 1 THEN [res |-> ErrStr(<<"Unexpected end of message">>), pos |-> 0]
    ELSE LET len == b[1]
             have == (Len(b) - 1) \div 2
             units == [i \in 1..(len - 1) |-> RdU16(b, 2 * i)]
         IN  IF len > 0
             THEN IF have < len
                  THEN [res |-> ErrStr(<<"Unexpected end of message">>), pos |-> 1 + 2 * have]
                  ELSE [res |-> IF from_utf16(units) = <<-1>>
                                THEN ErrStr(<<"Invalid UTF16 data", units>>)
                                ELSE OkStr(from_utf16(units)),
                        pos |-> 1 + 2 * len]
             ELSE [res |-> OkStr(<<>>), pos |-> 1]

\* a string of at most MaxStr characters is given to DataType::STR
InitStr ==
    /\ InitCam("str")
    /\ s_pc = "start"
    /\ s_val \in Strings(MaxStr)
    /\ s_bytes = <<>> /\ s_pos = 0 /\ s_res = NoStr
    /\ DataOff /\ FacOff

\* DataType::STR(s_val).encode()
str_encode ==
    /\ s_pc = "start"
    /\ LET e == encode(s_val, build)
       IN  /\ s_pc' = IF e.panic THEN "panic" ELSE "encoded"
           /\ s_bytes' = e.out
    /\ UNCHANGED <<camvars, datavars, facvars, s_val, s_pos, s_res>>

\* Cursor::new(s_bytes).read_ptp_str()
str_decode ==
    /\ s_pc = "encoded"
    /\ LET r == read_ptp_str(s_bytes)
       IN  s_res' = r.res /\ s_pos' = r.pos
    /\ s_pc' = "decoded"
    /\ UNCHANGED <<camvars, datavars, facvars, s_val, s_bytes>>

NextStr == str_encode \/ str_decode

SpecStr == InitStr /\ [][NextStr]_vars

\* code units a device may put into a string: NUL, 'A', the two surrogates
\* of U+1F600
Units == {0, 65, 55357, 56832}

RECURSIVE UnitSeqs(_)
UnitSeqs(n) ==
    IF n = 0 THEN {<<>>}
    ELSE UnitSeqs(n - 1) \cup { Append(us, u) : us \in UnitSeqs(n - 1), u \in Units }

\* what a cursor may stand on: nothing, or a character count followed by
\* some code units and perhaps a stray byte
StrBuffers ==
    {<<>>}
    \cup { <<n>> \o units_le(us) \o t :
             n \in 0..MaxStr, us \in UnitSeqs(MaxStr), t \in {<<>>, <<7>>} }

\* a buffer received from a device is about to be read as a string
InitStrRead ==
    /\ InitCam("strread")
    /\ s_pc = "buffer"
    /\ s_val = <<>>
    /\ s_bytes \in StrBuffers
    /\ s_pos = 0 /\ s_res = NoStr
    /\ DataOff /\ FacOff

\* Cursor::new(s_bytes).read_ptp_str()
str_read ==
    /\ s_pc = "buffer"
    /\ LET r == read_ptp_str(s_bytes)
       IN  s_res' = r.res /\ s_pos' = r.pos
    /\ s_pc' = "read"
    /\ UNCHANGED <<camvars, datavars, facvars, s_val, s_bytes>>

NextStrRead == str_read

SpecStrRead == InitStrRead /\ [][NextStrRead]_vars

\* ---------------------------------------------------- the DataType codec
\* datatype codes: INT8 .. UINT128 are 1 .. 10, their arrays have 0x4000 set
ScalarTags == 1..10
ArrayBit == 16384
ArrayTags == { ArrayBit + k : k \in ScalarTags }
StrTag == 65535

\* a DataType value: the variant (named by its datatype code) and its content.
\* An i8 / u8 / i16 / u16 is the number itself; a wider integer is the tuple
\* of the 16-bit limbs of its two's complement bit pattern, lowest first.
DataType(variant, v) == [variant |-> variant, val |-> v]
UNDEF == DataType(0, <<>>)

\* size in bytes of the scalar with datatype code k
width(k) ==
    IF k \in {1, 2} THEN 1 ELSE IF k \in {3, 4} THEN 2 ELSE IF k \in {5, 6} THEN 4
    ELSE IF k \in {7, 8} THEN 8 ELSE 16

\* write_i8, write_u8 and write_{i,u}{16,32,64,128}::<LittleEndian>
write_scalar(k, v) ==
    IF k = 1 THEN <<v % 256>>
    ELSE IF k = 2 THEN <<v>>
    ELSE IF k = 3 THEN LE16(v % Base)
    ELSE IF k = 4 THEN LE16(v)
    ELSE units_le(v)

RECURSIVE write_items(_, _)
write_items(k, vs) ==
    IF vs = <<>> THEN <<>> ELSE write_scalar(k, Head(vs)) \o write_items(k, Tail(vs))

\* DataType::encode of a scalar or an array variant (no datatype code is written)
encode_value(dv, bld) ==
    IF dv.variant \in ScalarTags THEN write_scalar(dv.variant, dv.val)
    ELSE IF dv.variant \in ArrayTags
    THEN LE32(AsU32(USize(Len(dv.val)))) \o write_items(dv.variant - ArrayBit, dv.val)
    ELSE IF dv.variant = StrTag THEN encode(dv.val, bld).out
    ELSE <<>>

\* a reader's answer: the result and the cursor position afterwards
Got(v, pos) == [res |-> OkVal(v), pos |-> pos]
Eof(pos) == [res |-> EofVal, pos |-> pos]

\* (mutant) read_i8 and read_i16 forget the sign
read_scalar_unsigned(k, b, pos) ==
    IF pos + width(k) > Len(b) THEN Eof(pos)
    ELSE IF k \in {1, 2} THEN Got(b[pos + 1], pos + 1)
    ELSE IF k \in {3, 4} THEN Got(RdU16(b, pos + 1), pos + 2)
    ELSE Got([i \in 1..(width(k) \div 2) |-> RdU16(b, pos + 2 * i - 1)], pos + width(k))

\* read_ptp_i8 .. read_ptp_u128 on a cursor over b at position pos
read_scalar(k, b, pos) ==
    IF pos + width(k) > Len(b) THEN Eof(pos)
    ELSE IF k = 1
    THEN Got(IF b[pos + 1] >= 128 THEN b[pos + 1] - 256 ELSE b[pos + 1], pos + 1)
    ELSE IF k = 2 THEN Got(b[pos + 1], pos + 1)
    ELSE IF k = 3
    THEN LET u == RdU16(b, pos + 1) IN Got(IF u >= 32768 THEN u - Base ELSE u, pos + 2)
    ELSE IF k = 4 THEN Got(RdU16(b, pos + 1), pos + 2)
    ELSE Got([i \in 1..(width(k) \div 2) |-> RdU16(b, pos + 2 * i - 1)], pos + width(k))

\* (0..len).map(|_| func(self)).collect(): n reads, the first error wins
RECURSIVE read_items(_, _, _, _)
read_items(k, b, pos, n) ==
    IF n = 0 THEN Got(<<>>, pos)
    ELSE LET r == read_scalar(k, b, pos)
         IN  IF ~r.res.ok THEN r
             ELSE LET rest == read_items(k, b, r.pos, n - 1)
                  IN  IF ~rest.res.ok THEN rest
                      ELSE Got(<<r.res.val>> \o rest.res.val, rest.pos)

\* PtpRead::read_ptp_vec: a u32 count, then that many elements.  A count
\* above the number of bytes in the buffer runs into its end at some element.
read_ptp_vec(k, b, pos) ==
    IF pos + 4 > Len(b) THEN Eof(pos)
    ELSE LET len == RdU32(b, pos + 1)
         IN  IF len[2] # 0 \/ len[1] > Len(b) THEN Eof(Len(b))
             ELSE read_items(k, b, pos + 4, len[1])

\* read_ptp_str on a cursor over b at position pos
read_str_at(b, pos) ==
    LET r == read_ptp_str(SubSeq(b, pos + 1, Len(b)))
    IN  IF r.res.ok THEN Got(r.res.str, pos + r.pos)
        ELSE [res |-> ErrVal(r.res.msg), pos |-> pos + r.pos]

\* the PtpRead method for the datatype code: read_ptp_u16, read_ptp_u16_vec,
\* read_ptp_str ...
read_ptp(kind, b, pos) ==
    IF kind \in ScalarTags THEN read_scalar(kind, b, pos)
    ELSE IF kind \in ArrayTags THEN read_ptp_vec(kind - ArrayBit, b, pos)
    ELSE IF kind = StrTag THEN read_str_at(b, pos)
    ELSE Got(<<>>, pos)

\* DataType::read_type
read_type(kind, b, pos) ==
    LET r == read_ptp(kind, b, pos)
    IN  IF ~r.res.ok THEN r
        ELSE IF kind \in ScalarTags \cup ArrayTags \cup {StrTag}
        THEN Got(DataType(kind, r.res.val), r.pos)
        ELSE Got(UNDEF, r.pos)

\* PtpRead::expect_end of Cursor<T>
expect_end(b, pos) ==
    IF Len(b) # pos
    THEN ErrVal(<<"Response ", Len(b), " bytes, expected ", pos, " bytes">>)
    ELSE OkVal(<<>>)

\* the values given to the codec: the extremes, zero, and a pattern of
\* distinct bytes
Limbs(n) ==
    { [i \in 1..n |-> 0], [i \in 1..n |-> 65535],
      [i \in 1..n |-> IF i = n THEN 32768 ELSE 0],
      [i \in 1..n |-> 512 * i + 2 * i - 1] }
Scalars(k) ==
    IF k = 1 THEN {-128, -1, 0, 127}
    ELSE IF k = 2 THEN {0, 1, 128, 255}
    ELSE IF k = 3 THEN {-32768, -1, 0, 258}
    ELSE IF k = 4 THEN {0, 258, 32768, 65535}
    ELSE Limbs(width(k) \div 2)

RECURSIVE Arrays(_, _)
Arrays(k, n) ==
    IF n = 0 THEN {<<>>}
    ELSE Arrays(k, n - 1) \cup { Append(a, v) : a \in Arrays(k, n - 1), v \in Scalars(k) }

Values(tag) == IF tag \in ScalarTags THEN Scalars(tag) ELSE Arrays(tag - ArrayBit, MaxArr)

\* a scalar or an array of at most MaxArr elements is given to the codec
InitData ==
    /\ InitCam("data") /\ StrOff /\ FacOff
    /\ d_pc = "start"
    /\ d_tag \in ScalarTags \cup ArrayTags
    /\ d_val \in Values(d_tag)
    /\ d_bytes = <<>> /\ d_pos = 0 /\ d_res = NoVal /\ d_end = NoVal

\* DataType::encode(&value)
data_encode ==
    /\ d_pc = "start"
    /\ d_bytes' = encode_value(DataType(d_tag, d_val), build)
    /\ d_pc' = "encoded"
    /\ UNCHANGED <<camvars, strvars, facvars, d_tag, d_val, d_pos, d_res, d_end>>

\* DataType::read_type(tag, &mut Cursor::new(bytes))
data_read_type ==
    /\ d_pc = "encoded"
    /\ LET r == read_type(d_tag, d_bytes, 0)
       IN  d_res' = r.res /\ d_pos' = r.pos
    /\ d_pc' = "read"
    /\ UNCHANGED <<camvars, strvars, facvars, d_tag, d_val, d_bytes, d_end>>

\* cursor.expect_end()
data_expect_end ==
    /\ d_pc = "read"
    /\ d_end' = expect_end(d_bytes, d_pos)
    /\ d_pc' = "done"
    /\ UNCHANGED <<camvars, strvars, facvars, d_tag, d_val, d_bytes, d_pos, d_res>>

NextData == data_encode \/ data_read_type \/ data_expect_end

SpecData == InitData /\ [][NextData]_vars

\* ------------------------------------------------------------ the facade
\* Option<u32>
None == [some |-> FALSE, v |-> U32(0)]
Some(v) == [some |-> TRUE, v |-> v]
unwrap_or(o, dflt) == IF o.some THEN o.v ELSE dflt

\* a method of the facade: the command() call it makes and what it does with
\* the Ok payload afterwards
Does(rq, then) == [rq |-> rq, then |-> then]
NoData(c, ps) == Request(c, ps, FALSE, NoSlice)

get_objectinfo(handle) == Does(NoData(GetObjectInfo, <<handle>>), "ObjectInfo")

get_object(handle) == Does(NoData(GetObject, <<handle>>), "raw")

\* (mutant) the parent handle is sent second
get_objecthandles_swapped(storage_id, handle_id, filter) ==
    Does(NoData(GetObjectHandles, <<storage_id, handle_id, unwrap_or(filter, U32(0))>>), "u32_vec")

get_objecthandles(storage_id, handle_id, filter) ==
    Does(NoData(GetObjectHandles, <<storage_id, unwrap_or(filter, U32(0)), handle_id>>), "u32_vec")

get_objecthandles_root(storage_id, filter) ==
    get_objecthandles(storage_id, <<65535, 65535>>, filter)

get_objecthandles_all(storage_id, filter) == get_objecthandles(storage_id, U32(0), filter)

get_numobjects(storage_id, handle_id, filter) ==
    Does(NoData(GetNumObjects, <<storage_id, unwrap_or(filter, U32(0)), handle_id>>), "u32")

get_storage_info(storage_id) == Does(NoData(GetStorageInfo, <<storage_id>>), "StorageInfo")

get_storageids == Does(NoData(GetStorageIDs, <<>>), "u32_vec")

get_numobjects_roots(storage_id, filter) ==
    get_numobjects(storage_id, <<65535, 65535>>, filter)

get_numobjects_all(storage_id, filter) == get_numobjects(storage_id, U32(0), filter)

\* (mutant) GetDeviceInfo is sent without parameters
get_device_info_no_params == Does(NoData(GetDeviceInfo, <<>>), "DeviceInfo")

get_device_info == Does(NoData(GetDeviceInfo, <<U32(0), U32(0), U32(0)>>), "DeviceInfo")

\* (mutant) the session id is sent alone
open_session_one_param == Does(NoData(OpenSession, <<U32(1)>>), "unit")

open_session == Does(NoData(OpenSession, <<U32(1), U32(0), U32(0)>>), "unit")

close_session == Does(NoData(CloseSession, <<>>), "unit")

disconnect == Does(close_session.rq, "release")

\* the calls made on the facade
FacadeCall(name, storage_id, handle_id, filter) ==
    [name |-> name, storage_id |-> storage_id, handle_id |-> handle_id, filter |-> filter]
Plain(name) == FacadeCall(name, U32(0), U32(0), None)

FacadeCalls ==
    { Plain(n) : n \in {"get_device_info", "open_session", "close_session", "disconnect",
                        "get_storageids"} }
    \cup { FacadeCall(n, U32(0), <<5, 0>>, None) : n \in {"get_objectinfo", "get_object"} }
    \cup { FacadeCall("get_storage_info", <<1, 1>>, U32(0), None) }
    \cup { FacadeCall(n, <<1, 1>>, <<3, 0>>, f) :
             n \in {"get_numobjects", "get_objecthandles"}, f \in {None, Some(<<14337, 0>>)} }
    \cup { FacadeCall(n, <<1, 1>>, U32(0), f) :
             n \in {"get_numobjects_roots", "get_numobjects_all",
                    "get_objecthandles_root", "get_objecthandles_all"},
             f \in {None, Some(<<14337, 0>>)} }

Facade(c) ==
    CASE c.name = "get_objectinfo" -> get_objectinfo(c.handle_id)
      [] c.name = "get_object" -> get_object(c.handle_id)
      [] c.name = "get_objecthandles" -> get_objecthandles(c.storage_id, c.handle_id, c.filter)
      [] c.name = "get_objecthandles_root" -> get_objecthandles_root(c.storage_id, c.filter)
      [] c.name = "get_objecthandles_all" -> get_objecthandles_all(c.storage_id, c.filter)
      [] c.name = "get_numobjects" -> get_numobjects(c.storage_id, c.handle_id, c.filter)
      [] c.name = "get_numobjects_roots" -> get_numobjects_roots(c.storage_id, c.filter)
      [] c.name = "get_numobjects_all" -> get_numobjects_all(c.storage_id, c.filter)
      [] c.name = "get_storage_info" -> get_storage_info(c.storage_id)
      [] c.name = "get_storageids" -> get_storageids
      [] c.name = "get_device_info" -> get_device_info
      [] c.name = "open_session" -> open_session
      [] c.name = "close_session" -> close_session
      [] c.name = "disconnect" -> disconnect

\* the dataset decoders: the fields in the order they are read, each named by
\* the datatype code of its reader
DeviceInfoFields ==
    <<4, 6, 4, StrTag, 4, ArrayBit + 4, ArrayBit + 4, ArrayBit + 4, ArrayBit + 4,
      ArrayBit + 4, StrTag, StrTag, StrTag, StrTag>>
ObjectInfoFields ==
    <<6, 4, 4, 6, 4, 6, 6, 6, 6, 6, 6, 6, 4, 6, 6, StrTag, StrTag, StrTag, StrTag>>
StorageInfoFields == <<4, 4, 4, 8, 8, 6, StrTag, StrTag>>

\* the struct expression of a decoder: one read per field, `?` on each
RECURSIVE read_fields(_, _, _)
read_fields(fs, b, pos) ==
    IF fs = <<>> THEN Got(<<>>, pos)
    ELSE LET r == read_ptp(Head(fs), b, pos)
         IN  IF ~r.res.ok THEN r
             ELSE LET rest == read_fields(Tail(fs), b, r.pos)
                  IN  IF ~rest.res.ok THEN rest
                      ELSE Got(<<r.res.val>> \o rest.res.val, rest.pos)

\* `let v = <read>?; cur.expect_end()?; Ok(v)`
then_expect_end(r, b) ==
    IF ~r.res.ok THEN r.res
    ELSE IF ~expect_end(b, r.pos).ok THEN expect_end(b, r.pos)
    ELSE r.res

\* what a method makes of the payload command() returned
Decoded(then, pl) ==
    IF then = "DeviceInfo" THEN FromVal(read_fields(DeviceInfoFields, pl.bytes, 0).res)
    ELSE IF then = "ObjectInfo" THEN FromVal(read_fields(ObjectInfoFields, pl.bytes, 0).res)
    ELSE IF then = "StorageInfo"
    THEN FromVal(then_expect_end(read_fields(StorageInfoFields, pl.bytes, 0), pl.bytes))
    ELSE IF then = "u32_vec"
    THEN FromVal(then_expect_end(read_ptp_vec(6, pl.bytes, 0), pl.bytes))
    ELSE IF then = "u32" THEN FromVal(then_expect_end(read_scalar(6, pl.bytes, 0), pl.bytes))
    ELSE IF then = "raw" THEN OkRet(pl)
    ELSE OkRet(<<>>)

\* (mutant) disconnect releases the interface whatever close_session returned
Finish_release_always(then, r, rel_ok) ==
    IF then = "release"
    THEN [ret |-> IF ~r.ok THEN ErrOf(r) ELSE IF rel_ok THEN OkRet(<<>>) ELSE ErrOf(ErrUsb),
          release |-> TRUE]
    ELSE IF ~r.ok THEN [ret |-> ErrOf(r), release |-> FALSE]
    ELSE [ret |-> Decoded(then, r.payload), release |-> FALSE]

\* the rest of a method once command() has returned r: `?` on an error, else
\* release_interface (which succeeds or not) or the decoding of the payload
Finish(then, r, rel_ok) ==
    IF ~r.ok THEN [ret |-> ErrOf(r), release |-> FALSE]
    ELSE IF then = "release"
    THEN [ret |-> IF rel_ok THEN OkRet(<<>>) ELSE ErrOf(ErrUsb), release |-> TRUE]
    ELSE [ret |-> Decoded(then, r.payload), release |-> FALSE]

\* a fresh Camera used through its facade
InitFacade ==
    /\ InitCam("facade") /\ StrOff /\ DataOff
    /\ f_pc = "idle" /\ f_op = NoCall /\ f_ret = NoRet /\ release_calls = 0

\* a method of the facade is entered and calls command()
facade_call(c) ==
    /\ f_pc \in {"idle", "done"}
    /\ command(Facade(c).rq)
    /\ f_pc' = "called"
    /\ f_op' = c
    /\ f_ret' = NoRet
    /\ UNCHANGED release_calls

\* command() has returned and the method runs to its end
facade_return(rel_ok) ==
    /\ f_pc = "called" /\ pc = "idle"
    /\ LET o == Finish(Facade(f_op).then, result, rel_ok)
       IN  /\ f_ret' = o.ret
           /\ release_calls' = IF o.release THEN release_calls + 1 ELSE release_calls
    /\ f_pc' = "done"
    /\ UNCHANGED <<camvars, codecvars, f_op>>

NextFacade ==
    \/ \E c \in FacadeCalls : facade_call(c)
    \/ \E ok \in BOOLEAN : write_first(ok)
    \/ \E ok \in BOOLEAN, d \in FirstReads(mode, tid, code) : read_first(ok, d)
    \/ \E ok \in BOOLEAN :
         \E n \in SecondReads(Sub(cap, payload.len).v,
                              Sub(cinfo.payload_len, payload.len).v) : read_second(ok, n)
    \/ \E rel_ok \in BOOLEAN : facade_return(rel_ok)

SpecFacade == InitFacade /\ [][NextFacade]_vars

\* ------------------------------------------------------------- properties
Last(q) == q[Len(q)]
Front(q) == SubSeq(q, 1, Len(q) - 1)

\* payload of the last Data container among rs, the empty payload if none
RECURSIVE LastData(_)
LastData(rs) ==
    IF rs = <<>> THEN NoSlice
    ELSE IF Last(rs).cinfo.kind = KindData THEN Last(rs).payload
    ELSE LastData(Front(rs))

HeadWrites == { i \in 1..Len(xfers) : xfers[i].dir = "out" /\ xfers[i].head }
HeadReads == { i \in 1..Len(xfers) : xfers[i].dir = "in" /\ xfers[i].head /\ xfers[i].ok }

\* C1: every command() call adds exactly one to current_tid, whatever its
\* outcome, and writes its containers with the value before the increment:
\* after N calls on a fresh Camera current_tid = N, the k-th call used
\* tid k-1, and no two calls used the same tid.
C1_TidPerCall ==
    /\ current_tid = U32(calls)
    /\ Len(used) = calls
    /\ \A k \in 1..calls : used[k] = U32(k - 1)
    /\ \A i, j \in 1..calls : i # j => used[i] # used[j]
    /\ \A i \in HeadWrites : SubSeq(xfers[i].bytes, 9, 12) = LE32(U32(calls - 1))

\* two calls were made, the second failed, and the counter still moved
C1_Witness ==
    /\ calls = 2 /\ pc = "idle" /\ ~result.ok
    /\ HeadWrites # {}
    /\ current_tid = U32(2)

\* C2: a Response with the call's tid and code Ok makes command() return the
\* payload of the last Data container received in the call, or the empty
\* payload when there was none.
C2_OkReturnsLastData ==
    (/\ received # <<>>
     /\ Last(received).cinfo.kind = KindResponse
     /\ Last(received).cinfo.tid = tid
     /\ Last(received).cinfo.code = ResponseOk)
    => (pc = "idle" /\ result = Ok(LastData(received)))

\* Data, another Data with a different payload, Response Ok: the second wins
C2_Witness ==
    /\ Len(received) = 3
    /\ received[1].cinfo.kind = KindData /\ received[2].cinfo.kind = KindData
    /\ received[1].payload.bytes # <<>> /\ received[2].payload.bytes # <<>>
    /\ received[1].payload # received[2].payload
    /\ result.ok /\ result.payload = received[2].payload

\* C3: a Response with the call's tid and a code other than Ok makes
\* command() return Error::Response with that code and no payload, also after
\* a Data container, and no bulk read follows it in the call.
C3_ResponseError ==
    (/\ received # <<>>
     /\ Last(received).cinfo.kind = KindResponse
     /\ Last(received).cinfo.tid = tid
     /\ Last(received).cinfo.code # ResponseOk)
    => (/\ pc = "idle"
        /\ result = ErrResponse(Last(received).cinfo.code)
        /\ result.payload = NoSlice
        /\ Last(xfers).dir = "in" /\ Last(xfers).ok
        /\ Cardinality(HeadReads) = Len(received))

\* a Data container with a payload, then Response InvalidObjectHandle
C3_Witness ==
    /\ Len(received) = 2
    /\ received[1].cinfo.kind = KindData /\ received[1].payload.bytes # <<>>
    /\ received[2].cinfo.kind = KindResponse
    /\ result.kind = "Response" /\ result.code = InvalidObjectHandle

\* C4: a received container of any kind whose tid is not the call's tid ends
\* the call with Error::Malformed("mismatched txnid <received>, expecting
\* <assigned>"), and its payload is neither retained nor returned.
C4_Mismatch ==
    (received # <<>> /\ Last(received).cinfo.tid # tid)
    => (/\ pc = "idle"
        /\ result = ErrMalformed(<<"mismatched txnid ", Last(received).cinfo.tid,
                                   ", expecting ", tid>>)
        /\ data_phase_payload = LastData(Front(received)))

\* a Data container with a payload and a foreign tid arrived in the second call
C4_Witness ==
    /\ received # <<>>
    /\ Last(received).cinfo.kind = KindData
    /\ Last(received).payload.bytes # <<>>
    /\ Last(received).cinfo.tid = <<7, 0>> /\ tid = U32(1)
    /\ result.kind = "Malformed"

\* sum of the lengths of the bulk writes of phase k
RECURSIVE Written(_, _)
Written(xs, k) ==
    IF xs = <<>> THEN USize(0)
    ELSE IF Last(xs).dir = "out" /\ Last(xs).kind = k
         THEN Add(Written(Front(xs), k), Last(xs).len).v
         ELSE Written(Front(xs), k)

Rank(x) == IF x.dir = "in" THEN 3 ELSE IF x.kind = KindCommand THEN 1 ELSE 2
AllWritesOk == \A i \in 1..Len(xfers) : xfers[i].dir = "out" => xfers[i].ok
ParamsLen == USize(CONTAINER_INFO_SIZE + 4 * Len(params))
DataLen == Add(data.slice.len, USize(CONTAINER_INFO_SIZE)).v
HasData == \E i \in 1..Len(xfers) : xfers[i].dir = "out" /\ xfers[i].kind = KindData

\* C5: within one call the bulk transfers come in the order: the writes of
\* one Command container whose payload is the params as little-endian u32,
\* then (exactly when data is Some) the writes of one Data container with the
\* same code and tid, then the reads; no write follows a read.
C5_PhaseOrder ==
    /\ \A i, j \in 1..Len(xfers) : i < j => Rank(xfers[i]) <= Rank(xfers[j])
    /\ \A i \in 1..Len(xfers) :
         xfers[i].dir = "out" =>
           /\ xfers[i].kind \in {KindCommand, KindData}
           /\ xfers[i].head <=> (i = 1 \/ xfers[i - 1].kind # xfers[i].kind)
           /\ xfers[i].head =>
                /\ RdU16(xfers[i].bytes, 5) = xfers[i].kind
                /\ RdU16(xfers[i].bytes, 7) = code
                /\ RdU32(xfers[i].bytes, 9) = tid
    /\ xfers # <<>> =>
         /\ xfers[1].dir = "out" /\ xfers[1].kind = KindCommand
         /\ xfers[1].len = ParamsLen
         /\ Len(xfers[1].bytes) = CONTAINER_INFO_SIZE + 4 * Len(params)
         /\ \A k \in 1..Len(params) : RdU32(xfers[1].bytes, 9 + 4 * k) = params[k]
    /\ HasData => data.some /\ xfers[1].ok
    /\ (\E i \in 1..Len(xfers) : xfers[i].dir = "in") =>
         /\ AllWritesOk
         /\ Written(xfers, KindCommand) = ParamsLen
         /\ HasData <=> data.some
         /\ data.some => Written(xfers, KindData) = DataLen

\* a Command with two params, a Data container of an empty payload or of two
\* bulk writes, and the read that followed
C5_Witness ==
    /\ Len(xfers) >= 4
    /\ xfers[1].kind = KindCommand /\ xfers[2].kind = KindData /\ xfers[3].kind = KindData
    /\ ~xfers[3].head
    /\ Last(xfers).dir = "in"
    /\ result.ok

\* payload length of the phase a head write belongs to
PhaseLen(k) == IF k = KindCommand THEN USize(4 * Len(params)) ELSE data.slice.len

\* C6: the length field (bytes 0..4, little-endian u32) of every container
\* written equals 12 + the length of the whole payload, for every payload
\* size, also when that sum does not fit in 32 bits.
C6_LenField ==
    \A i \in HeadWrites :
        AsUSize(RdU32(xfers[i].bytes, 1)) = Add(PhaseLen(xfers[i].kind), USize(CONTAINER_INFO_SIZE)).v

\* C7: a received header that declares a total length below 12 makes
\* ContainerInfo::parse, read_txn_phase and command() return
\* Error::Malformed; no ContainerInfo is produced and the program does not
\* abort.
C7_ShortLenMalformed ==
    (/\ xfers # <<>>
     /\ Last(xfers).dir = "in" /\ Last(xfers).head /\ Last(xfers).ok
     /\ Len(Last(xfers).bytes) >= CONTAINER_INFO_SIZE
     /\ from_u16(RdU16(Last(xfers).bytes, 5)) # 0
     /\ Lt(AsUSize(RdU32(Last(xfers).bytes, 1)), USize(CONTAINER_INFO_SIZE)))
    => (pc = "idle" /\ result.kind = "Malformed")

\* C8: read_txn_phase returns exactly payload_len bytes, the ones that follow
\* the header, however the device splits the container over bulk reads.
C8_ExactPayload ==
    \A i \in 1..Len(received) :
        /\ received[i].payload.len = received[i].cinfo.payload_len
        /\ Tracked(received[i].payload) =>
             received[i].payload.bytes = DevBytes(i, 1, Len(received[i].payload.bytes))

\* the PTP string layout: count of code units including the NUL, the code
\* units little-endian, a NUL; a single zero byte for the empty string
PtpString(x) ==
    IF x = <<>> THEN <<0>>
    ELSE <<Len(encode_utf16(x)) + 1>> \o units_le(encode_utf16(x)) \o <<0, 0>>

\* C9: read_ptp_str applied to DataType::STR(s).encode() returns s and
\* consumes all encoded bytes.
C9_RoundTrip ==
    s_pc = "decoded" => (s_res = OkStr(s_val) /\ s_pos = Len(s_bytes))

\* C10: DataType::STR(s).encode() is the PTP string layout: for n code
\* units a leading n+1, the code units little-endian and 0x0000 (1 + 2*(n+1)
\* bytes); the single byte 0x00 for the empty string.
C10_Encoding ==
    s_pc = "encoded" => s_bytes = PtpString(s_val)

\* byte j (from 0) of the little-endian layout of a scalar with datatype code k
ByteOf(k, v, j) ==
    IF k \in {1, 2} THEN (v + 256) % 256
    ELSE IF k \in {3, 4}
    THEN IF j = 0 THEN ((v + Base) % Base) % 256 ELSE ((v + Base) % Base) \div 256
    ELSE IF j % 2 = 0 THEN v[(j \div 2) + 1] % 256 ELSE v[(j \div 2) + 1] \div 256

\* C11: for every scalar datatype code 0x0001..0x000A, every array code
\* 0x4001..0x400A and every value v of the matching variant, read_type on
\* v.encode() returns Ok(v) with the cursor at the end of the buffer
\* (expect_end succeeds); an array is encoded as a u32 count followed by
\* exactly count little-endian elements.
C11_ScalarArrayRoundTrip ==
    /\ d_pc = "done" =>
         /\ d_res = OkVal(DataType(d_tag, d_val))
         /\ d_pos = Len(d_bytes)
         /\ d_end.ok
    /\ (d_pc \in {"encoded", "read", "done"} /\ d_tag \in ArrayTags) =>
         LET k == d_tag - ArrayBit
             w == width(k)
         IN  /\ Len(d_bytes) = 4 + w * Len(d_val)
             /\ SubSeq(d_bytes, 1, 4) = <<Len(d_val), 0, 0, 0>>
             /\ \A i \in 1..Len(d_val) : \A j \in 0..(w - 1) :
                  d_bytes[4 + w * (i - 1) + j + 1] = ByteOf(k, d_val[i], j)

\* an array of two i16 with a negative element made the whole trip
C11_Witness ==
    /\ d_pc = "done"
    /\ d_tag = ArrayBit + 3
    /\ Len(d_val) = 2 /\ d_val[1] = -1 /\ d_val[2] = 258
    /\ d_res.ok /\ d_end.ok

\* b is a well-formed dataset of the operation with code c followed by one
\* more byte, or short of its last byte
OneTooLong(c, b) == b # <<>> /\ Front(b) \in Datasets(c)
OneTooShort(c, b) == \E v \in Datasets(c) : b = Front(v)
Decodes(c) ==
    c.name \in {"get_device_info", "get_objectinfo", "get_storage_info", "get_storageids",
                "get_objecthandles", "get_numobjects"}

\* C12: every dataset decode reached through the facade (DeviceInfo,
\* ObjectInfo, StorageInfo, the u32 arrays of get_storageids and
\* get_objecthandles, the u32 of get_numobjects) fails with Error::Malformed
\* when the Data payload is a valid encoding followed by one extra byte, and
\* when it is a valid encoding with its last byte removed.
C12_DatasetLength ==
    (/\ f_pc = "done" /\ result.ok /\ Decodes(f_op)
     /\ OneTooLong(code, result.payload.bytes) \/ OneTooShort(code, result.payload.bytes))
    => f_ret.kind = "Malformed"

Zeros(n) == [i \in 1..n |-> 0]

\* C13 as stated: get_device_info() on a fresh Camera transmits as its
\* Command phase exactly the 12 bytes 0C 00 00 00 01 00 01 10 00 00 00 00
\* (length 12, kind Command, code 0x1001, tid 0, no parameter payload).
C13_NoParams ==
    (f_op.name = "get_device_info" /\ calls = 1 /\ xfers # <<>>)
    => /\ xfers[1].dir = "out" /\ xfers[1].kind = KindCommand
       /\ xfers[1].len = USize(12)
       /\ xfers[1].bytes = <<12, 0, 0, 0, 1, 0, 1, 16, 0, 0, 0, 0>>

\* C13 (amended): get_device_info() on a fresh Camera transmits as its Command
\* phase exactly 24 bytes: the header 18 00 00 00 01 00 01 10 00 00 00 00
\* (length 24, kind Command, code 0x1001, tid 0) and the three parameters
\* [0, 0, 0] as twelve zero bytes.
C13_ThreeZeroParams ==
    (f_op.name = "get_device_info" /\ calls = 1 /\ xfers # <<>>)
    => /\ xfers[1].dir = "out" /\ xfers[1].kind = KindCommand
       /\ xfers[1].len = USize(24)
       /\ xfers[1].bytes = <<24, 0, 0, 0, 1, 0, 1, 16, 0, 0, 0, 0>> \o Zeros(12)
       /\ \A i \in 2..Len(xfers) : xfers[i].dir = "in"

\* the first call was get_device_info and it returned the parsed DeviceInfo
C13_Witness ==
    /\ f_op.name = "get_device_info" /\ calls = 1
    /\ f_pc = "done" /\ f_ret.ok
    /\ Len(xfers) = 3

\* C14: open_session() on a fresh Camera transmits one Command container with
\* header 18 00 00 00 01 00 02 10 00 00 00 00 and payload 01 00 00 00 00 00
\* 00 00 00 00 00 00, sends no Data-out container, and returns Ok on Response
\* Ok with tid 0; the next command on the same Camera carries tid 1.
C14_OpenSession ==
    [][/\ (f_op'.name = "open_session" /\ calls' = 1) =>
            /\ xfers' # <<>> =>
                 /\ xfers'[1].dir = "out" /\ xfers'[1].kind = KindCommand
                 /\ xfers'[1].bytes = <<24, 0, 0, 0, 1, 0, 2, 16, 0, 0, 0, 0>>
                                      \o <<1, 0, 0, 0>> \o Zeros(8)
            /\ \A i \in 2..Len(xfers') : xfers'[i].dir = "in"
            /\ (/\ f_pc' = "done" /\ received' # <<>>
                /\ Last(received').cinfo =
                     [payload_len |-> USize(0), kind |-> KindResponse,
                      code |-> ResponseOk, tid |-> U32(0)])
               => f_ret' = OkRet(<<>>)
       /\ (f_op.name = "open_session" /\ calls = 1 /\ calls' = 2) =>
            /\ tid' = U32(1)
            /\ Header(w_kind', code', tid', w_payload')[9] = 1
       /\ (calls' = 2 /\ xfers' # <<>>) => SubSeq(xfers'[1].bytes, 9, 12) = <<1, 0, 0, 0>>
      ]_vars

\* open_session was the first call, the device answered Response Ok and the
\* method returned Ok; the counter stands at 1
C14_Witness ==
    /\ f_op.name = "open_session" /\ calls = 1
    /\ f_pc = "done" /\ f_ret = OkRet(<<>>)
    /\ Len(xfers) = 2
    /\ current_tid = U32(1)

\* the parent handle a call names: its argument, or what the wrapper fixes
Parent(c) ==
    IF c.name \in {"get_numobjects_roots", "get_objecthandles_root"} THEN <<65535, 65535>>
    ELSE IF c.name \in {"get_numobjects_all", "get_objecthandles_all"} THEN U32(0)
    ELSE c.handle_id

\* C15: get_numobjects and get_objecthandles send the three Command
\* parameters in the order [storage_id, filter (0 when None), parent]; the
\* *_root / *_roots wrappers send parent 0xFFFFFFFF and the *_all wrappers
\* parent 0, with storage_id and filter passed through unchanged.
C15_ParamOrder ==
    (f_op.name \in {"get_numobjects", "get_numobjects_roots", "get_numobjects_all",
                    "get_objecthandles", "get_objecthandles_root", "get_objecthandles_all"})
    => LET filter == IF f_op.filter.some THEN f_op.filter.v ELSE U32(0)
       IN  /\ code = IF f_op.name \in {"get_numobjects", "get_numobjects_roots",
                                       "get_numobjects_all"}
                     THEN GetNumObjects ELSE GetObjectHandles
           /\ params = <<f_op.storage_id, filter, Parent(f_op)>>
           /\ xfers # <<>> =>
                /\ xfers[1].kind = KindCommand
                /\ SubSeq(xfers[1].bytes, 13, 24)
                     = LE32(f_op.storage_id) \o LE32(filter) \o LE32(Parent(f_op))

\* get_objecthandles with a parent and a filter, distinct from the storage id
C15_Witness ==
    /\ f_op.name = "get_objecthandles" /\ f_op.filter.some
    /\ f_op.storage_id # f_op.handle_id /\ f_op.filter.v # f_op.handle_id
    /\ f_pc = "done" /\ f_ret.ok /\ Len(f_ret.val) = 2

\* C16: disconnect() first runs the complete CloseSession transaction (code
\* 0x1003, no params) and only after it returned Ok calls release_interface;
\* if close_session fails, release_interface is not called and that error is
\* returned.
C16_ReleaseAfterClose ==
    [][/\ release_calls' # release_calls =>
            /\ f_op.name = "disconnect" /\ f_pc = "called"
            /\ pc = "idle" /\ result.ok
            /\ code = CloseSession /\ params = <<>>
            /\ xfers[1].bytes = <<12, 0, 0, 0, 1, 0, 3, 16>> \o LE32(tid)
            /\ Last(received).cinfo.kind = KindResponse
            /\ Last(received).cinfo.code = ResponseOk
            /\ xfers' = xfers
            /\ release_calls' = release_calls + 1
       /\ (f_op.name = "disconnect" /\ f_pc = "called" /\ f_pc' = "done") =>
            IF result.ok THEN release_calls' = release_calls + 1
            ELSE release_calls' = release_calls /\ f_ret' = ErrOf(result)
      ]_vars

\* the second call on the Camera was a disconnect whose CloseSession was
\* answered Ok: the interface was released, once
C16_Witness ==
    /\ f_op.name = "disconnect" /\ f_pc = "done"
    /\ calls = 2 /\ release_calls = 1
    /\ f_ret.ok

\* C17: a bulk write or read that returns a USB error makes command() return
\* Error::Usb at once: no bulk transfer follows it in the call, it is not
\* retried, a failed Command write is followed by neither a Data-out write
\* nor a read, and no Command container is written twice for one call.
C17_UsbErrorEndsCall ==
    /\ \A i \in 1..Len(xfers) :
         ~xfers[i].ok => (i = Len(xfers) /\ pc = "idle" /\ result = ErrUsb)
    /\ Cardinality({ i \in HeadWrites : xfers[i].kind = KindCommand }) <= 1

\* the Command write of a call that had data to send failed
C17_Witness ==
    /\ Len(xfers) = 1 /\ ~xfers[1].ok
    /\ xfers[1].dir = "out" /\ xfers[1].kind = KindCommand
    /\ data.some
    /\ pc = "idle" /\ result = ErrUsb

\* C18: a received container with the call's tid whose kind is Command or
\* Event is discarded: the call goes on, no error is produced and the
\* accumulated data payload stays as it was, so that a later Response Ok
\* still returns the Data payload received before it; no container of
\* another kind is passed over like that.
C18_OtherKindsDiscarded ==
    [][Len(received') = Len(received) + 1 =>
         LET r == Last(received')
         IN  /\ (r.cinfo.tid = tid /\ r.cinfo.kind \in {KindCommand, KindEvent}) =>
                  /\ pc' = "read1"
                  /\ result' = NoResult
                  /\ data_phase_payload' = data_phase_payload
             /\ (pc' = "read1" /\ r.cinfo.kind \notin {KindCommand, KindEvent}) =>
                  /\ r.cinfo.kind = KindData
                  /\ data_phase_payload' = r.payload
             /\ (pc' = "idle" /\ result'.ok) => result'.payload = LastData(received')
      ]_vars

\* a Data container with a payload, an Event with another payload, Response Ok
C18_Witness ==
    /\ Len(received) = 3
    /\ received[1].cinfo.kind = KindData /\ received[1].payload.bytes # <<>>
    /\ received[2].cinfo.kind = KindEvent /\ received[2].payload.bytes # <<>>
    /\ received[2].payload # received[1].payload
    /\ received[3].cinfo.kind = KindResponse
    /\ result = Ok(received[1].payload)

\* the last transfer is a first bulk read of read_txn_phase that succeeded
FirstReadDone ==
    /\ xfers # <<>>
    /\ Last(xfers).dir = "in" /\ Last(xfers).head /\ Last(xfers).ok
\* the kind field of what it read
ReadKind == RdU16(Last(xfers).bytes, 5)
\* read_txn_phase failed on it: no container came out of it, the call is over
FailedInParse ==
    /\ pc = "idle"
    /\ Cardinality(HeadReads) = Len(received) + 1

\* C19 as stated: ContainerInfo::parse returns Error::Malformed for every
\* header whose kind is not 1, 2, 3 or 4, and Error::Malformed("Unexpected
\* end of message") for a first bulk read shorter than 12 bytes; in both
\* cases read_txn_phase fails before a second bulk read and command() ends
\* without examining tid or payload.
C19_ParseErrors ==
    FirstReadDone =>
      /\ (Len(Last(xfers).bytes) >= CONTAINER_INFO_SIZE /\ from_u16(ReadKind) = 0) =>
           (result.kind = "Malformed" /\ FailedInParse)
      /\ Len(Last(xfers).bytes) < CONTAINER_INFO_SIZE => (result = ErrEof /\ FailedInParse)

\* C19 (amended): ContainerInfo::parse returns Error::Malformed("Invalid
\* message type <kind>") for every first bulk read of at least 6 bytes whose
\* kind field is not 1, 2, 3 or 4, also when it is shorter than 12 bytes, and
\* Error::Malformed("Unexpected end of message") for every other first bulk
\* read shorter than 12 bytes; in both cases read_txn_phase fails before a
\* second bulk read and command() ends without examining tid or payload.
C19_ParseErrorsKindFirst ==
    FirstReadDone =>
      /\ (Len(Last(xfers).bytes) >= 6 /\ from_u16(ReadKind) = 0) =>
           /\ result = ErrMalformed(<<"Invalid message type", ReadKind>>)
           /\ FailedInParse
      /\ (/\ Len(Last(xfers).bytes) < CONTAINER_INFO_SIZE
          /\ Len(Last(xfers).bytes) < 6 \/ from_u16(ReadKind) # 0) =>
           (result = ErrEof /\ FailedInParse)

\* a first bulk read of 11 bytes with a valid kind ended the call
C19_Witness ==
    /\ FirstReadDone
    /\ Len(Last(xfers).bytes) = 11 /\ ReadKind = KindResponse
    /\ result = ErrEof /\ pc = "idle"

\* positions in xfers of the bulk writes of phase k
WritesOf(k) == { i \in 1..Len(xfers) : xfers[i].dir = "out" /\ xfers[i].kind = k }
\* the write at position i is not the last one of its phase
NotLast(i) ==
    i < Len(xfers) /\ xfers[i + 1].dir = "out" /\ xfers[i + 1].kind = xfers[i].kind
\* n * CHUNK_SIZE as a usize (n below 2^28)
Chunks(n) == <<0, (16 * n) % Base, (16 * n) \div Base, 0>>
\* the bytes of the transfers xs, concatenated
RECURSIVE BytesOf(_)
BytesOf(xs) == IF xs = <<>> THEN <<>> ELSE Head(xs).bytes \o BytesOf(Tail(xs))
PhasePayload(k) == IF k = KindCommand THEN Slice(request_payload(params)) ELSE data.slice
\* the writes of phase k are all made
PhaseDone(k) ==
    \E i \in 1..Len(xfers) : Rank(xfers[i]) > (IF k = KindCommand THEN 1 ELSE 2)

\* C20: the bulk writes of one write_txn_phase, concatenated in order, are the
\* 12-byte header followed by the whole payload; the first write holds the
\* header plus min(payload.len(), CHUNK_SIZE - 12) payload bytes, every write
\* is at most CHUNK_SIZE bytes, and every write except the last is exactly
\* CHUNK_SIZE bytes.
C20_Chunking ==
    \A k \in {KindCommand, KindData} :
      LET ws == WritesOf(k)
          pl == PhasePayload(k)
          first == Min(pl.len, Sub(CHUNK_SIZE, USize(CONTAINER_INFO_SIZE)).v)
      IN  /\ \A i \in ws :
               /\ xfers[i].head <=> (i = 1 \/ xfers[i - 1].kind # k)
               /\ xfers[i].head =>
                    /\ xfers[i].len = Add(first, USize(CONTAINER_INFO_SIZE)).v
                    /\ SubSeq(xfers[i].bytes, 5, 12) = LE16(k) \o LE16(code) \o LE32(tid)
               /\ ~Lt(CHUNK_SIZE, xfers[i].len)
               /\ NotLast(i) => (xfers[i].len = CHUNK_SIZE /\ xfers[i].ok)
          /\ (PhaseDone(k) /\ ws # {}) =>
               \E l \in ws :
                  /\ ~NotLast(l)
                  /\ Add(Chunks(Cardinality(ws) - 1), xfers[l].len).v
                       = Add(pl.len, USize(CONTAINER_INFO_SIZE)).v
          /\ (PhaseDone(k) /\ ws # {} /\ Tracked(pl)) =>
               LET sent == SelectSeq(xfers, LAMBDA x : x.dir = "out" /\ x.kind = k)
               IN  BytesOf(sent) = SubSeq(sent[1].bytes, 1, CONTAINER_INFO_SIZE) \o pl.bytes

\* a payload of two chunks went out in three writes: a full first write, a
\* full chunk and the last 12 bytes; the reads have begun
C20_Witness ==
    /\ Cardinality(WritesOf(KindData)) = 3
    /\ xfers[4].len = USize(12) /\ xfers[4].dir = "out"
    /\ data.slice.len = <<0, 32, 0, 0>>
    /\ pc = "read1"

\* the successful first bulk reads of read_txn_phase that brought a whole
\* header of a valid kind declaring a length of at least 12
HeaderReads ==
    { i \in HeadReads :
        /\ Len(xfers[i].bytes) >= CONTAINER_INFO_SIZE
        /\ from_u16(RdU16(xfers[i].bytes, 5)) # 0
        /\ ~Lt(AsUSize(RdU32(xfers[i].bytes, 1)), USize(CONTAINER_INFO_SIZE)) }
\* payloadLen as the header read by transfer i declares it
DeclaredLen(i) == Sub(AsUSize(RdU32(xfers[i].bytes, 1)), USize(CONTAINER_INFO_SIZE)).v
\* the payload bytes transfer i delivered after the header
Delivered(i) == Sub(xfers[i].len, USize(CONTAINER_INFO_SIZE)).v
\* a second bulk read follows transfer i, or is about to be issued
SecondReadAfter(i) ==
    IF i = Len(xfers) THEN pc = "read2"
    ELSE xfers[i + 1].dir = "in" /\ ~xfers[i + 1].head
\* the buffer the pending second bulk read is offered: the spare capacity
Room == Sub(cap, payload.len).v

\* C21: read_txn_phase issues one bulk read when the header declares
\* payloadLen = 0; otherwise it issues a second one exactly when the first
\* delivered fewer than payloadLen payload bytes or returned exactly 8192
\* bytes; it never issues more than two bulk reads for one container, and the
\* second read is offered a buffer of at least one byte.
C21_SecondRead ==
    /\ \A i \in HeaderReads :
         SecondReadAfter(i) <=>
           /\ DeclaredLen(i) # USize(0)
           /\ Lt(Delivered(i), DeclaredLen(i)) \/ xfers[i].len = USize(SCRATCH_SIZE)
    /\ \A j \in 1..Len(xfers) :
         (xfers[j].dir = "in" /\ ~xfers[j].head) =>
           (j > 1 /\ xfers[j - 1].dir = "in" /\ xfers[j - 1].head)
    /\ (pc = "read2" /\ Len(xfers) \in HeaderReads) => Lt(USize(0), Room)

\* the strings of at most n characters out of Chars and NUL
RECURSIVE Texts(_)
Texts(n) ==
    IF n = 0 THEN {<<>>}
    ELSE Texts(n - 1) \cup { Append(x, ch) : x \in Texts(n - 1), ch \in Chars \cup {0} }
\* the character count in front of the buffer, and the code units before the
\* last of the n it announces
Count == s_bytes[1]
Body == [i \in 1..(Count - 1) |-> RdU16(s_bytes, 2 * i)]
WellFormed(us) == \E x \in Texts(MaxStr) : encode_utf16(x) = us

\* C22: read_ptp_str consumes 1 byte and returns "" when the leading u8 n is
\* 0; for n >= 1 it consumes 1 + 2*n bytes and returns the first n-1 code
\* units decoded from UTF-16, whatever the value of the n-th code unit; it
\* returns Error::Malformed("Unexpected end of message") when fewer than
\* 1 + 2*n bytes remain, and Error::Malformed when the code units are not
\* valid UTF-16.
C22_ReadStr ==
    s_pc = "read" =>
      IF s_bytes = <<>> THEN s_res = ErrStr(<<"Unexpected end of message">>)
      ELSE IF Count = 0 THEN s_res = OkStr(<<>>) /\ s_pos = 1
      ELSE IF Len(s_bytes) < 1 + 2 * Count
      THEN s_res = ErrStr(<<"Unexpected end of message">>)
      ELSE /\ s_pos = 1 + 2 * Count
           /\ IF WellFormed(Body)
              THEN s_res.ok /\ encode_utf16(s_res.str) = Body
              ELSE s_res.kind = "Malformed" /\ s_res.msg # <<"Unexpected end of message">>

\* three code units were announced, the first two are a surrogate pair and
\* the third is not 0x0000: U+1F600 came out and a stray byte was left alone
C22_Witness ==
    /\ s_pc = "read"
    /\ s_bytes = <<3>> \o LE16(55357) \o LE16(56832) \o LE16(65) \o <<7>>
    /\ s_res = OkStr(<<128512>>)
    /\ s_pos = 7

\* the device has sent as many containers as are followed, none of which
\* ended the call: it has not sent the one that ends it yet
Exhausted == pc = "read1" /\ Len(received) = ContainerLimit(mode)

\* C23: when every bulk transfer returns and the device, after finitely many
\* containers, sends a Response, a container with another tid or a malformed
\* header, or a transfer fails, command() eventually returns; the loop
\* itself puts no bound on the Data, Command and Event containers with the
\* call's tid it consumes before that.
C23_Termination ==
    (pc # "idle") ~> (pc = "idle" \/ Exhausted)

====
